---- MODULE Spec2Model ----
(***************************************************************************)
(* git-rebase-all (version 0.0.6): one run of the program against a git    *)
(* repository with several worktrees.                                      *)
(*                                                                         *)
(* The repository is the pair (refs, head): the commit of every local      *)
(* branch and what every worktree has checked out.  A commit is the        *)
(* sequence of the changes on its first-parent line, each change paired    *)
(* with the committer time of the commit that holds it, so that "c is an   *)
(* ancestor of d" is "c is a prefix of d" and two commits are the same     *)
(* object exactly when they agree on parent, change and committer time.    *)
(* Histories are linear (no merge commits).                                *)
(*                                                                         *)
(* The program is the sequential procedure run() of main.go; pc names the  *)
(* call of run() that comes next and every action is one call of a git     *)
(* command wrapper (or one helper of main.go), with its outcome drawn from *)
(* what git can answer.                                                    *)
(***************************************************************************)
EXTENDS Integers, Sequences, FiniteSets, TLC

\* ------------------------------------------------------------------ bounds

\* worktrees of the repository: 1..MaxWorktrees
MaxWorktrees == 2
\* committer times a rebase can stamp on the commits it writes: 1..MaxClock
MaxClock == 2

\* the number of times the program is run, one run after the other
MaxRuns == 2

\* ------------------------------------------------------------------ names

\* Branch names in the order of slices.Sort (byte-wise string order).
BranchOrder == <<"a", "b", "c", "main", "master">>

BranchNames == {BranchOrder[k] : k \in 1..Len(BranchOrder)}

\* The branches other than the integration branch that a repository may hold.
TopicBranches == {"a", "b", "c"}

NoBranch == ""

\* ---------------------------------------------------------------- commits

\* The commit id of a ref that does not exist.
NoSHA == << <<"none", 0>> >>

M0 == << <<"m0", 0>> >>
M1 == << <<"m0", 0>>, <<"m1", 0>> >>
X0 == << <<"m0", 0>>, <<"x", 0>> >>
Y0 == << <<"m0", 0>>, <<"x", 0>>, <<"y", 0>> >>
Z0 == << <<"m0", 0>>, <<"x", 0>>, <<"z", 0>> >>
MX == << <<"m0", 0>>, <<"m1", 0>>, <<"x", 0>> >>

\* Where a topic branch may point when the program starts: at the target's
\* commit, one commit ahead (X0), or at one of two siblings built on X0.
InitCommits == {M0, X0, Y0, Z0}

\* What the remote's copy of the target may be when it is pulled: unchanged
\* (M0), one new commit (M1), or a new commit followed by a copy of the change
\* of X0 (MX: the change was cherry-picked upstream).
RemoteTips == {M0, M1, MX}

IsPrefix(c, d) == Len(c) <= Len(d) /\ SubSeq(d, 1, Len(c)) = c

\* c is an ancestor of d, or d itself (git merge-base --is-ancestor c d)
IsAncestor(c, d) == c # NoSHA /\ d # NoSHA /\ IsPrefix(c, d)

\* length of the history shared by c and d (git merge-base c d)
MergeBaseLen(c, d) ==
    CHOOSE k \in 0..Len(c) :
        /\ k <= Len(d)
        /\ SubSeq(c, 1, k) = SubSeq(d, 1, k)
        /\ \A j \in (k+1)..Len(c) : j <= Len(d) => SubSeq(c, 1, j) # SubSeq(d, 1, j)


\* ------------------------------------------------------- the repository (git)

VARIABLES
    refs,       \* branch name -> commit of the branch (NoSHA: no such branch)
    head,       \* worktree -> [branch, sha]: the branch checked out, or
                \* branch = NoBranch and the commit of the detached HEAD
    cwd,        \* the worktree the program was started in (os.Getwd)
    flagB,      \* the value of the -b flag ("" when not given)
    gitVersion, \* <<major, minor>> of the git that is installed
    clock,      \* the committer time of the latest commit written by a rebase
                \* of this run (0: none yet)
    refs0,      \* refs when the program started
    head0,      \* head when the program started
    runs        \* the number of runs of the program that have ended before
                \* this one started

\* ------------------------------------------------------------ the program

VARIABLES
    pc,         \* the statement of run() that is executed next
    i,          \* index of the loop that pc is in
    s,          \* the state struct of main.go
    err,        \* the named result err of run(): a set of error texts, {} is nil
    deferred,   \* whether run() has executed its defer statement
    calls,      \* every git command issued so far, in order, with its outcome
    exitCode    \* exit status of the process, -1 while it runs

vars == <<refs, head, cwd, flagB, gitVersion, clock, refs0, head0, runs, pc, i, s, err, deferred, calls, exitCode>>

gitVars == <<refs, head, cwd, flagB, gitVersion, clock, refs0, head0, runs>>

Dirs == DOMAIN head

Attached(b) == [branch |-> b, sha |-> NoSHA]

Detached(c) == [branch |-> NoBranch, sha |-> c]

\* the commit a worktree has checked out (git rev-parse HEAD)
HeadCommit(rs, hd, dir) ==
    IF hd[dir].branch = NoBranch THEN hd[dir].sha ELSE rs[hd[dir].branch]

\* git refuses to check out a branch that another worktree has checked out
HeldElsewhere(hd, dir, b) ==
    \E d \in DOMAIN hd : d # dir /\ hd[d].branch = b

\* One git command of the log: the function of main.go that issued it, the
\* command, the worktree it ran in (0: the process's directory), its
\* argument and its outcome.
Call(by, op, dir, arg, res) ==
    [by |-> by, op |-> op, dir |-> dir, arg |-> arg, res |-> res]

\* The commands that change a worktree's checkout or a branch's commit.
MutatingOps == {"checkout", "checkout-sha", "fetch", "pull", "rebase", "abort"}

\* errors.Join: nil when both are nil, else an error that wraps every non-nil one
Join(e1, e2) == e1 \cup e2

\* The keys in an order other than the sorted one, as a range over the map
\* without sortedKeys may give them.
SortedKeys_MapOrder(m) ==
    LET keys == SelectSeq(BranchOrder, LAMBDA b : b \in DOMAIN m)
    IN  [k \in 1..Len(keys) |-> keys[Len(keys) + 1 - k]]

\* slices.Sort over the keys of a map
SortedKeys(m) == SelectSeq(BranchOrder, LAMBDA b : b \in DOMAIN m)

\* contains presupposes that xs is sorted (binary search)
Contains(xs, x) == \E k \in 1..Len(xs) : xs[k] = x

\* ---- git checkout <branch>

\* The answers git can give to `git checkout b` in worktree dir.
CheckoutOutcomes(rs, hd, dir, b) ==
    IF b \notin DOMAIN rs \/ rs[b] = NoSHA THEN {"fail"}
    ELSE IF HeldElsewhere(hd, dir, b) THEN {"refused"}
    ELSE {"ok", "fail"}

\* ---- git rebase <target> --update-refs

Restamp(elems, t) == [k \in 1..Len(elems) |-> <<elems[k][1], t>>]

\* The refs after a successful `git rebase target --update-refs` run in worktree
\* dir, whose new commits get committer time t.  Up to date: nothing moves.
\* Nothing to replay: the checked-out branch is fast-forwarded.  Otherwise the
\* commits of target..HEAD are replayed on the target, except those whose change
\* the target already holds ("skipped previously applied commit"); the branch
\* checked out moves to the last copy, and every other branch that points at a
\* replayed commit (and is not checked out in another worktree) moves to the
\* copy of its commit.  A branch that points at a skipped commit stays.
GitRebase(rs, hd, dir, target, t) ==
    LET cur == hd[dir].branch
        C   == HeadCommit(rs, hd, dir)
        T   == rs[target]
        k   == MergeBaseLen(C, T)
        upstream == {T[j][1] : j \in (k+1)..Len(T)}
        Picked(c) == SelectSeq(SubSeq(c, k+1, Len(c)), LAMBDA e : e[1] \notin upstream)
        Rewritten(c) == T \o Restamp(Picked(c), t)
        InTodo(c) == /\ c # NoSHA
                     /\ IsPrefix(c, C)
                     /\ Len(c) > k
                     /\ c[Len(c)][1] \notin upstream
    IN  IF IsPrefix(T, C) THEN rs
        ELSE IF IsPrefix(C, T)
             THEN [b \in DOMAIN rs |-> IF b = cur THEN T ELSE rs[b]]
        ELSE [b \in DOMAIN rs |->
                 IF b = cur \/ (InTodo(rs[b]) /\ ~HeldElsewhere(hd, dir, b))
                 THEN Rewritten(rs[b]) ELSE rs[b]]

\* ---- git branch --contains <branch>

DetachedLine == "(HEAD detached)"

\* The lines of `git branch --contains branch` in worktree dir: the detached
\* HEAD of that worktree when it contains the commit, then the branches.
ContainsListing(rs, hd, dir, branch) ==
    (IF hd[dir].branch = NoBranch /\ IsAncestor(rs[branch], hd[dir].sha)
        THEN <<DetachedLine>> ELSE <<>>)
    \o SelectSeq(BranchOrder, LAMBDA c : IsAncestor(rs[branch], rs[c]))


\* ----------------------------------------------------------------- git.go

\* branchChildren without the test `s.branches[child] == s.branches[branch]`.
branchChildren_KeepsAliases(sb, rs, hd, dir, branch) ==
    LET lines == ContainsListing(rs, hd, dir, branch)
        named == SelectSeq(lines, LAMBDA child : child # branch /\ child # DetachedLine)
    IN  IF branch \notin DOMAIN sb
           \/ \E k \in 1..Len(named) : named[k] \notin DOMAIN sb
        THEN [ok |-> FALSE, out |-> <<>>]
        ELSE [ok |-> TRUE, out |-> named]

\* branchChildren that skips a child missing from s.branches
branchChildren_SkipsUnknown(sb, rs, hd, dir, branch) ==
    LET lines == ContainsListing(rs, hd, dir, branch)
        named == SelectSeq(lines, LAMBDA child : child # branch /\ child # DetachedLine)
    IN  IF branch \notin DOMAIN sb
        THEN [ok |-> FALSE, out |-> <<>>]
        ELSE [ok |-> TRUE,
              out |-> SelectSeq(named, LAMBDA child : child \in DOMAIN sb /\ sb[child] # sb[branch])]

\* branchChildren: the branches that contain `branch`, without the branch
\* itself, the detached HEAD and the branches on the same commit.  ok is FALSE
\* when a name is missing from s.branches.
branchChildren(sb, rs, hd, dir, branch) ==
    LET lines == ContainsListing(rs, hd, dir, branch)
        named == SelectSeq(lines, LAMBDA child : child # branch /\ child # DetachedLine)
    IN  IF branch \notin DOMAIN sb
           \/ \E k \in 1..Len(named) : named[k] \notin DOMAIN sb
        THEN [ok |-> FALSE, out |-> <<>>]
        ELSE [ok |-> TRUE,
              out |-> SelectSeq(named, LAMBDA child : sb[child] # sb[branch])]

\* status with the filter inverted: only the untracked lines are kept
status_KeepsUntracked(lines) == SelectSeq(lines, LAMBDA l : l[1] = "??")

\* status: the lines of `git status --porcelain=v1` without the untracked ones
\* ("??"); a line is <<XY, path>>.
status(lines) == SelectSeq(lines, LAMBDA l : l[1] # "??")

\* Whether the worktree that printed these lines has uncommitted changes to
\* tracked files.
Uncommitted(lines) == \E k \in 1..Len(lines) : lines[k][1] # "??"

\* What `git status --porcelain=v1` may print in a worktree.
PorcelainOutputs ==
    { <<>>, << <<"??", "f">> >>, << <<" M", "g">> >>, << <<"??", "f">>, <<" M", "g">> >> }

\* ---------------------------------------------------------------- main.go

minGitMajorVersion == 2

minGitMinorVersion == 38

\* What `git --version` may report, as <<major, minor>>.
GitVersions == { <<1, 40>>, <<2, 37>>, <<2, 38>>, <<2, 39>>, <<3, 0>> }

\* validateGitVersion that tests the minor version whatever the major one is
validateGitVersion_MinorAlone(v) ==
    /\ ~(v[1] < minGitMajorVersion)
    /\ ~(v[2] < minGitMinorVersion)

\* validateGitVersion: TRUE when the version is accepted
validateGitVersion(v) ==
    /\ ~(v[1] < minGitMajorVersion)
    /\ ~(v[1] = minGitMajorVersion /\ v[2] < minGitMinorVersion)

\* resolveTarget that falls back to main and master when the requested branch
\* is missing
resolveTarget_FallsBack(branches, requested) ==
    LET branchNames == SortedKeys(branches)
    IN  IF requested # "" /\ Contains(branchNames, requested) THEN requested
        ELSE IF Contains(branchNames, "main") THEN "main"
        ELSE IF Contains(branchNames, "master") THEN "master"
        ELSE NoBranch

\* The target branch newState settles on, NoBranch when it returns an error.
resolveTarget(branches, requested) ==
    LET branchNames == SortedKeys(branches)
    IN  IF requested # "" /\ ~Contains(branchNames, requested) THEN NoBranch
        ELSE IF requested # "" THEN requested
        ELSE IF Contains(branchNames, "main") THEN "main"
        ELSE IF Contains(branchNames, "master") THEN "master"
        ELSE NoBranch

\* The branches of the repository as `git branch --format` lists them.
BranchListing(rs) == [b \in {x \in DOMAIN rs : rs[x] # NoSHA} |-> rs[b]]

\* The worktrees as `git worktree list --porcelain` lists them.
WorktreeListing(hd) == [d \in 1..Cardinality(DOMAIN hd) |-> [dir |-> d, branch |-> hd[d].branch]]

\* constructBranchesToRebase that keeps every branch that has children
keepBranch_NonLeaves(st, rs, hd, branch) ==
    LET children == branchChildren(st.branches, rs, hd, st.currentDir, branch).out
    IN  \/ Len(children) = 0
        \/ st.branches[branch] # st.branches[st.targetBranch]

\* keepBranch without the test for the target among the children
keepBranch_LeavesOnly(st, rs, hd, branch) ==
    Len(branchChildren(st.branches, rs, hd, st.currentDir, branch).out) = 0

\* constructBranchesToRebase keeps a branch that has no children (a leaf) or
\* that has the target among its children and is not on the target's commit.
keepBranch(st, rs, hd, branch) ==
    LET children == branchChildren(st.branches, rs, hd, st.currentDir, branch).out
    IN  \/ Len(children) = 0
        \/ /\ Contains(children, st.targetBranch)
           /\ st.branches[branch] # st.branches[st.targetBranch]

\* constructBranchesToRebase without the slices.DeleteFunc that ends it
constructBranchesToRebase_KeepsTarget(st, rs, hd, failAt) ==
    LET keys == SortedKeys(st.branches)
        bad == {k \in 1..Len(keys) :
                   \/ k = failAt
                   \/ ~branchChildren(st.branches, rs, hd, st.currentDir, keys[k]).ok}
    IN  IF st.targetBranch \notin DOMAIN st.branches
        THEN [ok |-> FALSE, plan |-> <<>>, asked |-> 0]
        ELSE IF bad # {}
        THEN [ok |-> FALSE, plan |-> <<>>, asked |-> CHOOSE k \in bad : \A j \in bad : k <= j]
        ELSE [ok |-> TRUE,
              plan |-> SelectSeq(keys, LAMBDA b : keepBranch(st, rs, hd, b)),
              asked |-> Len(keys)]

\* constructBranchesToRebase that plans only the first of the branches on one commit
constructBranchesToRebase_OnePerCommit(st, rs, hd, failAt) ==
    LET keys == SortedKeys(st.branches)
        Bad(k) == \/ k = failAt
                  \/ ~branchChildren(st.branches, rs, hd, st.currentDir, keys[k]).ok
        bad == {k \in 1..Len(keys) : Bad(k)}
        firstBad == CHOOSE k \in bad : \A j \in bad : k <= j
    IN  IF st.targetBranch \notin DOMAIN st.branches
        THEN [ok |-> FALSE, plan |-> <<>>, asked |-> 0]
        ELSE IF bad # {}
        THEN [ok |-> FALSE, plan |-> <<>>, asked |-> firstBad]
        ELSE [ok |-> TRUE,
              plan |-> SelectSeq(SelectSeq(keys, LAMBDA b : keepBranch(st, rs, hd, b)),
                                 LAMBDA b : /\ b # st.targetBranch
                                            /\ \A k \in 1..Len(keys) :
                                                  (keys[k] # b /\ st.branches[keys[k]] = st.branches[b])
                                                  => \E j \in 1..Len(keys) : keys[j] = b /\ j < k),
              asked |-> Len(keys)]

\* constructBranchesToRebase: [ok, plan, asked].  failAt is the index of the
\* branch whose `git branch --contains` fails (0: none does); asked is the
\* number of branches whose children were asked for.
constructBranchesToRebase(st, rs, hd, failAt) ==
    LET keys == SortedKeys(st.branches)
        Bad(k) == \/ k = failAt
                  \/ ~branchChildren(st.branches, rs, hd, st.currentDir, keys[k]).ok
        bad == {k \in 1..Len(keys) : Bad(k)}
        firstBad == CHOOSE k \in bad : \A j \in bad : k <= j
    IN  IF st.targetBranch \notin DOMAIN st.branches
        THEN [ok |-> FALSE, plan |-> <<>>, asked |-> 0]
        ELSE IF bad # {}
        THEN [ok |-> FALSE, plan |-> <<>>, asked |-> firstBad]
        ELSE [ok |-> TRUE,
              plan |-> SelectSeq(SelectSeq(keys, LAMBDA b : keepBranch(st, rs, hd, b)),
                                 LAMBDA b : b # st.targetBranch),
              asked |-> Len(keys)]


\* ------------------------------------------------------------------- Init

\* The state struct before newState has filled it.
EmptyState ==
    [worktrees |-> <<>>, branches |-> [b \in {} |-> NoSHA], branchesToRebase |-> <<>>,
     currentDir |-> 0, targetBranch |-> NoBranch]

\* A repository: main at M0, every topic branch absent or at one of InitCommits,
\* 1..MaxWorktrees worktrees, each on a branch of its own, and the program
\* started in one of them without -b, with a git one minor version below the
\* minimum or the minimum itself (what follows the version check does not
\* depend on the version).  Up to the names of the topic branches
\* (of which only the order counts) and of the two siblings, these are all such
\* repositories: the topic branches are the first ones of a, b, c, and Z0 is
\* used only next to Y0.
Init ==
    /\ refs \in {r \in [BranchNames -> InitCommits \cup {NoSHA}] :
                    /\ r["main"] = M0
                    /\ r["master"] = NoSHA
                    /\ r["b"] # NoSHA => r["a"] # NoSHA
                    /\ r["c"] # NoSHA => r["b"] # NoSHA
                    /\ (\E b \in TopicBranches : r[b] = Z0)
                          => (\E b \in TopicBranches : r[b] = Y0)}
    /\ \E n \in 1..MaxWorktrees :
          /\ head \in {h \in [1..n -> {Attached(b) : b \in BranchNames}] :
                          /\ \A d \in 1..n : refs[h[d].branch] # NoSHA
                          /\ \A d, e \in 1..n : d # e => h[d].branch # h[e].branch}
          /\ cwd \in 1..n
    /\ flagB = ""
    /\ gitVersion \in {<<2, 37>>, <<2, 38>>}
    /\ clock = 0
    /\ refs0 = refs
    /\ head0 = head
    /\ runs = 0
    /\ pc = "main"
    /\ i = 1
    /\ s = EmptyState
    /\ err = {}
    /\ deferred = FALSE
    /\ calls = <<>>
    /\ exitCode = -1

\* ---------------------------------------------------------------- run()

\* main without its os.Exit(1)
ExitStatus_AlwaysZero(e) == 0

\* The exit status main gives the result of run().
ExitStatus(e) == IF e # {} THEN 1 ELSE 0

\* `return e` in run(): the deferred restore runs first when it is registered;
\* otherwise run() is over and main exits.
Return(e) ==
    /\ err' = e
    /\ i' = 1
    /\ IF deferred
       THEN /\ pc' = "restore"
            /\ exitCode' = exitCode
       ELSE /\ pc' = "exited"
            /\ exitCode' = ExitStatus(e)

\* The deferred function is over: run() returns e to main, which exits.
Exit(e) ==
    /\ err' = e
    /\ i' = 1
    /\ pc' = "exited"
    /\ exitCode' = ExitStatus(e)

\* run() with the plan constructed before the target branch is updated
Goto_PlanBeforeTarget(label) ==
    /\ pc' = CASE label = "updateTargetBranch" -> "constructBranchesToRebase"
               [] label = "rebaseBranches" -> "updateTargetBranch"
               [] label = "constructBranchesToRebase" -> "rebaseBranches"
               [] OTHER -> label
    /\ i' = 1
    /\ UNCHANGED <<err, exitCode>>

Goto(label) ==
    /\ pc' = label
    /\ i' = 1
    /\ UNCHANGED <<err, exitCode>>

\* the next round of the loop that pc is in
NextRound ==
    /\ i' = i + 1
    /\ UNCHANGED <<pc, err, exitCode>>

\* What flag.Parse makes of the command line: the flags are accepted (with or
\* without -v), -h or -help is given, or the command line is rejected.
CommandLines == {"run", "v", "help", "bad"}

\* The status flag.Parse (flag.ExitOnError) exits with when it rejects the
\* command line.
FlagErrorStatus == 2

\* main: flag.Parse and the -v flag; then run(targetBranch) is called.
Main ==
    /\ pc = "main"
    /\ \E cl \in CommandLines :
          CASE cl = "run"  -> /\ pc' = "validateGitVersion"
                              /\ exitCode' = exitCode
            [] cl = "v"    -> /\ pc' = "exited"
                              /\ exitCode' = 0
            [] cl = "help" -> /\ pc' = "exited"
                              /\ exitCode' = 0
            [] cl = "bad"  -> /\ pc' = "exited"
                              /\ exitCode' = FlagErrorStatus
    /\ UNCHANGED <<gitVars, i, s, err, deferred, calls>>

\* run: validateGitVersion()
ValidateGitVersion ==
    /\ pc = "validateGitVersion"
    /\ \/ /\ calls' = Append(calls, Call("validateGitVersion", "version", 0, "", "fail"))
          /\ Return({"validating the version of git"})
       \/ IF validateGitVersion(gitVersion)
          THEN /\ calls' = Append(calls, Call("validateGitVersion", "version", 0, "", "ok"))
               /\ Goto("isInsideWorkTree")
          ELSE /\ calls' = Append(calls, Call("validateGitVersion", "version", 0, "", "low"))
               /\ Return({"validating the version of git"})
    /\ UNCHANGED <<gitVars, s, deferred>>

\* IsInsideWorkTree with the error of the command ignored
IsInsideWorkTree_ErrorIgnored ==
    /\ pc = "isInsideWorkTree"
    /\ \E res \in {"ok", "fail"} :
          calls' = Append(calls, Call("run", "is-inside-work-tree", 0, "", res))
    /\ Goto("newState")
    /\ UNCHANGED <<gitVars, s, deferred>>

\* run: git rev-parse --is-inside-work-tree
IsInsideWorkTree ==
    /\ pc = "isInsideWorkTree"
    /\ \/ /\ calls' = Append(calls, Call("run", "is-inside-work-tree", 0, "", "ok"))
          /\ Goto("newState")
       \/ /\ calls' = Append(calls, Call("run", "is-inside-work-tree", 0, "", "fail"))
          /\ Return({"checking whether the program is being run from a git directory"})
    /\ UNCHANGED <<gitVars, s, deferred>>

\* run: newState(targetBranch)
NewState ==
    /\ pc = "newState"
    /\ \/ \* os.Getwd fails
          /\ calls' = calls
          /\ Return({"constructing state struct"})
          /\ s' = s
       \/ /\ calls' = Append(calls, Call("newState", "worktree-list", 0, "", "fail"))
          /\ Return({"constructing state struct"})
          /\ s' = s
       \/ /\ calls' = calls \o <<Call("newState", "worktree-list", 0, "", "ok"),
                                 Call("newState", "branch-list", cwd, "", "fail")>>
          /\ Return({"constructing state struct"})
          /\ s' = s
       \/ /\ calls' = calls \o <<Call("newState", "worktree-list", 0, "", "ok"),
                                 Call("newState", "branch-list", cwd, "", "ok")>>
          /\ LET branches == BranchListing(refs)
                 target   == resolveTarget(branches, flagB)
             IN  IF target = NoBranch
                 THEN /\ Return({"constructing state struct"})
                      /\ s' = s
                 ELSE /\ Goto("errIfUncommittedChanges")
                      /\ s' = [worktrees |-> WorktreeListing(head),
                               branches |-> branches,
                               branchesToRebase |-> <<>>,
                               currentDir |-> cwd,
                               targetBranch |-> target]
    /\ UNCHANGED <<gitVars, deferred>>


\* errIfUncommittedChanges: one round of its loop over s.worktrees
ErrIfUncommittedChanges ==
    /\ pc = "errIfUncommittedChanges"
    /\ LET w == s.worktrees[i]
       IN  \/ /\ calls' = Append(calls, Call("errIfUncommittedChanges", "status", w.dir, "", "fail"))
              /\ Return({"verifying that there are no uncommitted changes"})
           \/ \E lines \in PorcelainOutputs :
                 /\ calls' = Append(calls, Call("errIfUncommittedChanges", "status", w.dir, "",
                                                IF Uncommitted(lines) THEN "dirty" ELSE "clean"))
                 /\ IF Len(status(lines)) > 0
                    THEN Return({"verifying that there are no uncommitted changes"})
                    ELSE IF i < Len(s.worktrees)
                         THEN NextRound
                         ELSE Goto("fetch")
    /\ UNCHANGED <<gitVars, s, deferred>>

\* Fetch without the defer statement that follows it
Fetch_DeferMissing ==
    /\ pc = "fetch"
    /\ \/ /\ calls' = Append(calls, Call("run", "fetch", s.currentDir, "", "fail"))
          /\ Return({"fetching and pruning"})
       \/ /\ calls' = Append(calls, Call("run", "fetch", s.currentDir, "", "ok"))
          /\ Goto("decapitateAll")
    /\ UNCHANGED <<gitVars, s, deferred>>

\* run() with the defer statement before the fetch
Fetch_DeferFirst ==
    /\ pc = "fetch"
    /\ \/ /\ calls' = Append(calls, Call("run", "fetch", s.currentDir, "", "fail"))
          /\ err' = {"fetching and pruning"}
          /\ i' = 1
          /\ pc' = "restore"
          /\ exitCode' = exitCode
          /\ deferred' = TRUE
       \/ /\ calls' = Append(calls, Call("run", "fetch", s.currentDir, "", "ok"))
          /\ Goto("decapitateAll")
          /\ deferred' = TRUE
    /\ UNCHANGED <<gitVars, s>>

\* run: fetch(s.currentDir), then the defer statement
Fetch ==
    /\ pc = "fetch"
    /\ \/ /\ calls' = Append(calls, Call("run", "fetch", s.currentDir, "", "fail"))
          /\ Return({"fetching and pruning"})
          /\ deferred' = deferred
       \/ /\ calls' = Append(calls, Call("run", "fetch", s.currentDir, "", "ok"))
          /\ Goto("decapitateAll")
          /\ deferred' = TRUE
    /\ UNCHANGED <<gitVars, s>>

\* decapitate without cmd.Dir: every detachment is run in the directory of
\* the process
DecapitateAll_NoDir ==
    /\ pc = "decapitateAll"
    /\ LET w == s.worktrees[i]
       IN  \/ /\ calls' = Append(calls, Call("decapitateAll", "rev-parse", w.dir, "HEAD", "fail"))
              /\ Return({"failed to detach the HEAD for each worktree"})
              /\ head' = head
           \/ /\ calls' = calls \o <<Call("decapitateAll", "rev-parse", w.dir, "HEAD", "ok"),
                                     Call("decapitateAll", "checkout-sha", w.dir, "", "fail")>>
              /\ Return({"failed to detach the HEAD for each worktree"})
              /\ head' = head
           \/ /\ calls' = calls \o <<Call("decapitateAll", "rev-parse", w.dir, "HEAD", "ok"),
                                     Call("decapitateAll", "checkout-sha", w.dir, "", "ok")>>
              /\ head' = [head EXCEPT ![cwd] = Detached(HeadCommit(refs, head, cwd))]
              /\ IF i < Len(s.worktrees)
                 THEN NextRound
                 ELSE Goto("updateTargetBranch")
    /\ UNCHANGED <<refs, cwd, flagB, gitVersion, clock, refs0, head0, runs, s, deferred>>

\* decapitate that checks out HEAD, which leaves the branch checked out
DecapitateAll_KeepsBranch ==
    /\ pc = "decapitateAll"
    /\ LET w == s.worktrees[i]
       IN  \/ /\ calls' = Append(calls, Call("decapitateAll", "rev-parse", w.dir, "HEAD", "fail"))
              /\ Return({"failed to detach the HEAD for each worktree"})
              /\ head' = head
           \/ /\ calls' = calls \o <<Call("decapitateAll", "rev-parse", w.dir, "HEAD", "ok"),
                                     Call("decapitateAll", "checkout-sha", w.dir, "", "fail")>>
              /\ Return({"failed to detach the HEAD for each worktree"})
              /\ head' = head
           \/ /\ calls' = calls \o <<Call("decapitateAll", "rev-parse", w.dir, "HEAD", "ok"),
                                     Call("decapitateAll", "checkout-sha", w.dir, "", "ok")>>
              /\ head' = head
              /\ IF i < Len(s.worktrees)
                 THEN NextRound
                 ELSE Goto("updateTargetBranch")
    /\ UNCHANGED <<refs, cwd, flagB, gitVersion, clock, refs0, head0, runs, s, deferred>>

\* decapitate that checks out the commit of the target rather than the one
\* that `git rev-parse HEAD` printed
DecapitateAll_AtTarget ==
    /\ pc = "decapitateAll"
    /\ LET w == s.worktrees[i]
       IN  \/ /\ calls' = Append(calls, Call("decapitateAll", "rev-parse", w.dir, "HEAD", "fail"))
              /\ Return({"failed to detach the HEAD for each worktree"})
              /\ head' = head
           \/ /\ calls' = calls \o <<Call("decapitateAll", "rev-parse", w.dir, "HEAD", "ok"),
                                     Call("decapitateAll", "checkout-sha", w.dir, "", "fail")>>
              /\ Return({"failed to detach the HEAD for each worktree"})
              /\ head' = head
           \/ /\ calls' = calls \o <<Call("decapitateAll", "rev-parse", w.dir, "HEAD", "ok"),
                                     Call("decapitateAll", "checkout-sha", w.dir, "", "ok")>>
              /\ head' = [head EXCEPT ![w.dir] = Detached(refs[s.targetBranch])]
              /\ IF i < Len(s.worktrees)
                 THEN NextRound
                 ELSE Goto("updateTargetBranch")
    /\ UNCHANGED <<refs, cwd, flagB, gitVersion, clock, refs0, head0, runs, s, deferred>>

\* decapitateAll that goes on to the next worktree when a checkout failed
DecapitateAll_IgnoresFailure ==
    /\ pc = "decapitateAll"
    /\ LET w == s.worktrees[i]
       IN  \/ /\ calls' = Append(calls, Call("decapitateAll", "rev-parse", w.dir, "HEAD", "fail"))
              /\ Return({"failed to detach the HEAD for each worktree"})
              /\ head' = head
           \/ /\ calls' = calls \o <<Call("decapitateAll", "rev-parse", w.dir, "HEAD", "ok"),
                                     Call("decapitateAll", "checkout-sha", w.dir, "", "fail")>>
              /\ head' = head
              /\ IF i < Len(s.worktrees)
                 THEN NextRound
                 ELSE Goto("updateTargetBranch")
           \/ /\ calls' = calls \o <<Call("decapitateAll", "rev-parse", w.dir, "HEAD", "ok"),
                                     Call("decapitateAll", "checkout-sha", w.dir, "", "ok")>>
              /\ head' = [head EXCEPT ![w.dir] = Detached(HeadCommit(refs, head, w.dir))]
              /\ IF i < Len(s.worktrees)
                 THEN NextRound
                 ELSE Goto("updateTargetBranch")
    /\ UNCHANGED <<refs, cwd, flagB, gitVersion, clock, refs0, head0, runs, s, deferred>>

\* decapitateAll: one round of its loop, decapitate(w.dir)
DecapitateAll ==
    /\ pc = "decapitateAll"
    /\ LET w == s.worktrees[i]
       IN  \/ /\ calls' = Append(calls, Call("decapitateAll", "rev-parse", w.dir, "HEAD", "fail"))
              /\ Return({"failed to detach the HEAD for each worktree"})
              /\ head' = head
           \/ /\ calls' = calls \o <<Call("decapitateAll", "rev-parse", w.dir, "HEAD", "ok"),
                                     Call("decapitateAll", "checkout-sha", w.dir, "", "fail")>>
              /\ Return({"failed to detach the HEAD for each worktree"})
              /\ head' = head
           \/ /\ calls' = calls \o <<Call("decapitateAll", "rev-parse", w.dir, "HEAD", "ok"),
                                     Call("decapitateAll", "checkout-sha", w.dir, "", "ok")>>
              /\ head' = [head EXCEPT ![w.dir] = Detached(HeadCommit(refs, head, w.dir))]
              /\ IF i < Len(s.worktrees)
                 THEN NextRound
                 ELSE Goto("updateTargetBranch")
    /\ UNCHANGED <<refs, cwd, flagB, gitVersion, clock, refs0, head0, runs, s, deferred>>

\* updateTargetBranch that lists the worktrees anew after its checkout
UpdateTargetCheckout_RecordsCheckout ==
    /\ pc = "updateTargetBranch"
    /\ \E res \in CheckoutOutcomes(refs, head, s.currentDir, s.targetBranch) :
          /\ calls' = Append(calls, Call("updateTargetBranch", "checkout", s.currentDir, s.targetBranch, res))
          /\ IF res = "ok"
             THEN /\ head' = [head EXCEPT ![s.currentDir] = Attached(s.targetBranch)]
                  /\ Goto("pull")
             ELSE /\ head' = head
                  /\ Return({"updating target branch"})
    /\ s' = [s EXCEPT !.worktrees = WorktreeListing(head')]
    /\ UNCHANGED <<refs, cwd, flagB, gitVersion, clock, refs0, head0, runs, deferred>>

\* updateTargetBranch: checkout(s.currentDir, s.targetBranch)
UpdateTargetCheckout ==
    /\ pc = "updateTargetBranch"
    /\ \E res \in CheckoutOutcomes(refs, head, s.currentDir, s.targetBranch) :
          /\ calls' = Append(calls, Call("updateTargetBranch", "checkout", s.currentDir, s.targetBranch, res))
          /\ IF res = "ok"
             THEN /\ head' = [head EXCEPT ![s.currentDir] = Attached(s.targetBranch)]
                  /\ Goto("pull")
             ELSE /\ head' = head
                  /\ Return({"updating target branch"})
    /\ UNCHANGED <<refs, cwd, flagB, gitVersion, clock, refs0, head0, runs, s, deferred>>

\* updateTargetBranch that reads the commit of the target after a failed pull
UpdateTargetPull_IgnoresFailure ==
    /\ pc = "pull"
    /\ \/ /\ calls' = Append(calls, Call("updateTargetBranch", "pull", s.currentDir, "", "fail"))
          /\ Goto("branchToSHA")
          /\ refs' = refs
       \/ \E tip \in RemoteTips \cup {HeadCommit(refs, head, s.currentDir)} :
             /\ IsPrefix(HeadCommit(refs, head, s.currentDir), tip)
             /\ calls' = Append(calls, Call("updateTargetBranch", "pull", s.currentDir, "", "ok"))
             /\ refs' = [refs EXCEPT ![head[s.currentDir].branch] = tip]
             /\ Goto("branchToSHA")
    /\ UNCHANGED <<head, cwd, flagB, gitVersion, clock, refs0, head0, runs, s, deferred>>

\* updateTargetBranch: pull(s.currentDir); the branch checked out there is
\* fast-forwarded to the tip the remote has, or is up to date already.
UpdateTargetPull ==
    /\ pc = "pull"
    /\ \/ /\ calls' = Append(calls, Call("updateTargetBranch", "pull", s.currentDir, "", "fail"))
          /\ Return({"updating target branch"})
          /\ refs' = refs
       \/ \E tip \in RemoteTips \cup {HeadCommit(refs, head, s.currentDir)} :
             /\ IsPrefix(HeadCommit(refs, head, s.currentDir), tip)
             /\ calls' = Append(calls, Call("updateTargetBranch", "pull", s.currentDir, "", "ok"))
             /\ refs' = [refs EXCEPT ![head[s.currentDir].branch] = tip]
             /\ Goto("branchToSHA")
    /\ UNCHANGED <<head, cwd, flagB, gitVersion, clock, refs0, head0, runs, s, deferred>>

\* updateTargetBranch without the assignment s.branches[s.targetBranch] = newSHA
UpdateTargetSHA_NoWrite ==
    /\ pc = "branchToSHA"
    /\ \/ /\ calls' = Append(calls, Call("updateTargetBranch", "rev-parse", s.currentDir, s.targetBranch, "fail"))
          /\ Return({"updating target branch"})
          /\ s' = s
       \/ /\ calls' = Append(calls, Call("updateTargetBranch", "rev-parse", s.currentDir, s.targetBranch, "ok"))
          /\ s' = s
          /\ Goto("constructBranchesToRebase")
    /\ UNCHANGED <<gitVars, deferred>>

\* updateTargetBranch: branchToSHA and the write of s.branches[s.targetBranch]
UpdateTargetSHA ==
    /\ pc = "branchToSHA"
    /\ \/ /\ calls' = Append(calls, Call("updateTargetBranch", "rev-parse", s.currentDir, s.targetBranch, "fail"))
          /\ Return({"updating target branch"})
          /\ s' = s
       \/ /\ calls' = Append(calls, Call("updateTargetBranch", "rev-parse", s.currentDir, s.targetBranch, "ok"))
          /\ s' = [s EXCEPT !.branches[s.targetBranch] = refs[s.targetBranch]]
          /\ Goto("constructBranchesToRebase")
    /\ UNCHANGED <<gitVars, deferred>>

\* The name that a branch made by another process gets.
StrayBranch == "master"

\* Another process makes a branch on the commit of one of the branches after
\* the snapshot was taken and before constructBranchesToRebase asks git for
\* the children of the branches: `git branch --contains` then prints a name
\* that s.branches does not have.
BranchCreated ==
    /\ pc = "constructBranchesToRebase"
    /\ refs[StrayBranch] = NoSHA
    /\ \E b \in DOMAIN s.branches : refs' = [refs EXCEPT ![StrayBranch] = refs[b]]
    /\ UNCHANGED <<head, cwd, flagB, gitVersion, clock, refs0, head0, runs,
                   pc, i, s, err, deferred, calls, exitCode>>

\* The `git branch --contains` calls of a constructBranchesToRebase that asked
\* for the children of the first n branches, the last one failing when ~ok.
ContainsCalls(st, n, ok) ==
    [k \in 1..n |-> Call("constructBranchesToRebase", "contains", st.currentDir, SortedKeys(st.branches)[k],
                         IF k = n /\ ~ok THEN "fail" ELSE "ok")]

\* run: s.constructBranchesToRebase()
ConstructBranchesToRebase ==
    /\ pc = "constructBranchesToRebase"
    /\ \E failAt \in 0..Len(SortedKeys(s.branches)) :
          LET r == constructBranchesToRebase(s, refs, head, failAt)
          IN  /\ calls' = calls \o ContainsCalls(s, r.asked, r.asked # failAt)
              /\ IF r.ok
                 THEN /\ s' = [s EXCEPT !.branchesToRebase = r.plan]
                      /\ Goto("rebaseBranches")
                 ELSE /\ s' = s
                      /\ Return({"constructing the list of branches to rebase"})
    /\ UNCHANGED <<gitVars, deferred>>


\* rebaseBranches: the loop is over, run() returns nil
RebaseBranchesDone ==
    /\ pc = "rebaseBranches"
    /\ i > Len(s.branchesToRebase)
    /\ Return({})
    /\ UNCHANGED <<gitVars, s, deferred, calls>>

\* rebaseBranches that checks out the first branch of the plan in every round
RebaseCheckout_FirstAlways ==
    /\ pc = "rebaseBranches"
    /\ i <= Len(s.branchesToRebase)
    /\ LET b == s.branchesToRebase[1]
       IN  \E res \in CheckoutOutcomes(refs, head, s.currentDir, b) :
              /\ calls' = Append(calls, Call("rebaseBranches", "checkout", s.currentDir, b, res))
              /\ IF res = "ok"
                 THEN /\ head' = [head EXCEPT ![s.currentDir] = Attached(b)]
                      /\ pc' = "rebase"
                      /\ UNCHANGED <<i, err, exitCode>>
                 ELSE /\ head' = head
                      /\ Return({"rebasing the branches"})
    /\ UNCHANGED <<refs, cwd, flagB, gitVersion, clock, refs0, head0, runs, s, deferred>>

\* rebaseBranches that goes on to the rebase when the checkout failed
RebaseCheckout_IgnoresFailure ==
    /\ pc = "rebaseBranches"
    /\ i <= Len(s.branchesToRebase)
    /\ LET b == s.branchesToRebase[i]
       IN  \E res \in CheckoutOutcomes(refs, head, s.currentDir, b) :
              /\ calls' = Append(calls, Call("rebaseBranches", "checkout", s.currentDir, b, res))
              /\ IF res = "ok"
                 THEN /\ head' = [head EXCEPT ![s.currentDir] = Attached(b)]
                      /\ pc' = "rebase"
                      /\ UNCHANGED <<i, err, exitCode>>
                 ELSE /\ head' = head
                      /\ pc' = "rebase"
                      /\ UNCHANGED <<i, err, exitCode>>
    /\ UNCHANGED <<refs, cwd, flagB, gitVersion, clock, refs0, head0, runs, s, deferred>>

\* rebaseBranches: checkout(s.currentDir, b)
RebaseCheckout ==
    /\ pc = "rebaseBranches"
    /\ i <= Len(s.branchesToRebase)
    /\ LET b == s.branchesToRebase[i]
       IN  \E res \in CheckoutOutcomes(refs, head, s.currentDir, b) :
              /\ calls' = Append(calls, Call("rebaseBranches", "checkout", s.currentDir, b, res))
              /\ IF res = "ok"
                 THEN /\ head' = [head EXCEPT ![s.currentDir] = Attached(b)]
                      /\ pc' = "rebase"
                      /\ UNCHANGED <<i, err, exitCode>>
                 ELSE /\ head' = head
                      /\ Return({"rebasing the branches"})
    /\ UNCHANGED <<refs, cwd, flagB, gitVersion, clock, refs0, head0, runs, s, deferred>>

\* Whether the rebase of the branch checked out in dir writes new commits.
Replays(rs, hd, dir, target) ==
    /\ ~IsPrefix(rs[target], HeadCommit(rs, hd, dir))
    /\ ~IsPrefix(HeadCommit(rs, hd, dir), rs[target])

\* rebase that returns the outcome of `git rebase --abort` alone
rebaseErr_AbortOnly(abortOk) ==
    IF abortOk THEN {} ELSE {"failed to abort the rebase"}

\* The error that rebase returns for a failed `git rebase`: the rebase's error
\* wrapped with the outcome of `git rebase --abort`.
rebaseErr(abortOk) ==
    {"failed to rebase"} \cup
    (IF abortOk THEN {"successfully aborted"} ELSE {"failed to abort the rebase"})

\* rebase that returns after a failed `git rebase` without aborting it, when
\* the abort would have succeeded
Rebase_NoAbort ==
    /\ pc = "rebase"
    /\ \/ \E t \in (IF Replays(refs, head, s.currentDir, s.targetBranch)
                    THEN {clock, clock + 1} \cap 1..MaxClock ELSE {clock}) :
             /\ calls' = Append(calls, Call("rebaseBranches", "rebase", s.currentDir, s.targetBranch, "ok"))
             /\ refs' = GitRebase(refs, head, s.currentDir, s.targetBranch, t)
             /\ clock' = t
             /\ head' = head
             /\ pc' = "rebaseBranches"
             /\ i' = i + 1
             /\ UNCHANGED <<err, exitCode>>
       \/ /\ calls' = Append(calls, Call("rebaseBranches", "rebase", s.currentDir, s.targetBranch, "fail"))
          /\ Return({"rebasing the branches"} \cup rebaseErr(TRUE))
          /\ UNCHANGED <<refs, head, clock>>
       \/ /\ calls' = calls \o <<Call("rebaseBranches", "rebase", s.currentDir, s.targetBranch, "fail"),
                                 Call("rebaseBranches", "abort", s.currentDir, "", "fail")>>
          /\ Return({"rebasing the branches"} \cup rebaseErr(FALSE))
          /\ head' = [head EXCEPT ![s.currentDir] = Detached(refs[s.targetBranch])]
          /\ UNCHANGED <<refs, clock>>
    /\ UNCHANGED <<cwd, flagB, gitVersion, refs0, head0, runs, s, deferred>>


\* rebase whose abort puts every branch back on the commit of the start
Rebase_RollsBack ==
    /\ pc = "rebase"
    /\ \/ \E t \in (IF Replays(refs, head, s.currentDir, s.targetBranch)
                    THEN {clock, clock + 1} \cap 1..MaxClock ELSE {clock}) :
             /\ calls' = Append(calls, Call("rebaseBranches", "rebase", s.currentDir, s.targetBranch, "ok"))
             /\ refs' = GitRebase(refs, head, s.currentDir, s.targetBranch, t)
             /\ clock' = t
             /\ head' = head
             /\ pc' = "rebaseBranches"
             /\ i' = i + 1
             /\ UNCHANGED <<err, exitCode>>
       \/ /\ calls' = calls \o <<Call("rebaseBranches", "rebase", s.currentDir, s.targetBranch, "fail"),
                                 Call("rebaseBranches", "abort", s.currentDir, "", "ok")>>
          /\ Return({"rebasing the branches"} \cup rebaseErr(TRUE))
          /\ refs' = [b \in DOMAIN refs |-> IF b = s.targetBranch THEN refs[b] ELSE refs0[b]]
          /\ UNCHANGED <<head, clock>>
       \/ /\ calls' = calls \o <<Call("rebaseBranches", "rebase", s.currentDir, s.targetBranch, "fail"),
                                 Call("rebaseBranches", "abort", s.currentDir, "", "fail")>>
          /\ Return({"rebasing the branches"} \cup rebaseErr(FALSE))
          /\ head' = [head EXCEPT ![s.currentDir] = Detached(refs[s.targetBranch])]
          /\ UNCHANGED <<refs, clock>>
    /\ UNCHANGED <<cwd, flagB, gitVersion, refs0, head0, runs, s, deferred>>

\* rebaseBranches: rebase(s.currentDir, s.targetBranch), with the abort that
\* follows a failed rebase.  A rebase whose abort failed leaves the worktree
\* on a detached HEAD in the middle of the rebase.
Rebase ==
    /\ pc = "rebase"
    /\ \/ \E t \in (IF Replays(refs, head, s.currentDir, s.targetBranch)
                    THEN {clock, clock + 1} \cap 1..MaxClock ELSE {clock}) :
             /\ calls' = Append(calls, Call("rebaseBranches", "rebase", s.currentDir, s.targetBranch, "ok"))
             /\ refs' = GitRebase(refs, head, s.currentDir, s.targetBranch, t)
             /\ clock' = t
             /\ head' = head
             /\ pc' = "rebaseBranches"
             /\ i' = i + 1
             /\ UNCHANGED <<err, exitCode>>
       \/ /\ calls' = calls \o <<Call("rebaseBranches", "rebase", s.currentDir, s.targetBranch, "fail"),
                                 Call("rebaseBranches", "abort", s.currentDir, "", "ok")>>
          /\ Return({"rebasing the branches"} \cup rebaseErr(TRUE))
          /\ UNCHANGED <<refs, head, clock>>
       \/ /\ calls' = calls \o <<Call("rebaseBranches", "rebase", s.currentDir, s.targetBranch, "fail"),
                                 Call("rebaseBranches", "abort", s.currentDir, "", "fail")>>
          /\ Return({"rebasing the branches"} \cup rebaseErr(FALSE))
          /\ head' = [head EXCEPT ![s.currentDir] = Detached(refs[s.targetBranch])]
          /\ UNCHANGED <<refs, clock>>
    /\ UNCHANGED <<cwd, flagB, gitVersion, refs0, head0, runs, s, deferred>>

\* The deferred function with `err = s.restore()` guarded by a nil test: the
\* error of restore replaces the error of run().
DeferredJoin_Overwrite(e, restoreErr) == IF restoreErr # {} THEN restoreErr ELSE e

\* The deferred function as `defer s.restore()`: the error of restore is dropped.
DeferredJoin_DropsRestore(e, restoreErr) == e

\* The result of the deferred function: err joined with the result of restore.
DeferredJoin(e, restoreErr) == Join(e, restoreErr)

\* restore that checks out the branch of every worktree twice
Restore_Twice ==
    /\ pc = "restore"
    /\ LET w == s.worktrees[(i + 1) \div 2]
       IN  \E res \in CheckoutOutcomes(refs, head, w.dir, w.branch) :
              /\ calls' = Append(calls, Call("restore", "checkout", w.dir, w.branch, res))
              /\ IF res = "ok"
                 THEN /\ head' = [head EXCEPT ![w.dir] = Attached(w.branch)]
                      /\ IF i < 2 * Len(s.worktrees)
                         THEN NextRound
                         ELSE Exit(DeferredJoin(err, {}))
                 ELSE /\ head' = head
                      /\ Exit(DeferredJoin(err, {"restoring the worktree"}))
    /\ UNCHANGED <<refs, cwd, flagB, gitVersion, clock, refs0, head0, runs, s, deferred>>

\* restore, run by the deferred function of run(): one round of its loop,
\* checkout(w.dir, w.branch); the first failure ends it.
Restore ==
    /\ pc = "restore"
    /\ LET w == s.worktrees[i]
       IN  \E res \in CheckoutOutcomes(refs, head, w.dir, w.branch) :
              /\ calls' = Append(calls, Call("restore", "checkout", w.dir, w.branch, res))
              /\ IF res = "ok"
                 THEN /\ head' = [head EXCEPT ![w.dir] = Attached(w.branch)]
                      /\ IF i < Len(s.worktrees)
                         THEN NextRound
                         ELSE Exit(DeferredJoin(err, {}))
                 ELSE /\ head' = head
                      /\ Exit(DeferredJoin(err, {"restoring the worktree"}))
    /\ UNCHANGED <<refs, cwd, flagB, gitVersion, clock, refs0, head0, runs, s, deferred>>

Next ==
    \/ Main
    \/ ValidateGitVersion
    \/ IsInsideWorkTree
    \/ NewState
    \/ ErrIfUncommittedChanges
    \/ Fetch
    \/ DecapitateAll
    \/ UpdateTargetCheckout
    \/ UpdateTargetPull
    \/ UpdateTargetSHA
    \/ BranchCreated
    \/ ConstructBranchesToRebase
    \/ RebaseCheckout
    \/ Rebase
    \/ RebaseBranchesDone
    \/ Restore

Spec == Init /\ [][Next]_vars

\* The program is sequential and every git command returns: a step that can
\* be taken is taken.
SpecFair == Init /\ [][Next]_vars /\ WF_vars(Next)


\* What -b may be given: nothing, a branch, or a name no branch has.
RequestedTargets == {"", "a", "main", "master", "dev"}

\* The inputs of the program: a repository with one worktree, on a, in which
\* main and master each exist or not, the program started with any of
\* RequestedTargets, and any of GitVersions installed.
InitInputs ==
    /\ refs \in {r \in [BranchNames -> {M0, X0, NoSHA}] :
                    /\ r["a"] # NoSHA
                    /\ r["b"] = NoSHA
                    /\ r["c"] = NoSHA
                    /\ r["main"] # X0
                    /\ r["master"] # X0}
    /\ head = <<Attached("a")>>
    /\ cwd = 1
    /\ flagB \in RequestedTargets
    /\ gitVersion \in GitVersions
    /\ clock = 0
    /\ refs0 = refs
    /\ head0 = head
    /\ runs = 0
    /\ pc = "main"
    /\ i = 1
    /\ s = EmptyState
    /\ err = {}
    /\ deferred = FALSE
    /\ calls = <<>>
    /\ exitCode = -1

SpecInputs == InitInputs /\ [][Next]_vars

\* run() was called and ended without an error, and no git command failed or
\* reported uncommitted changes.
RunSucceeded ==
    /\ pc = "exited"
    /\ calls # <<>>
    /\ err = {}
    /\ \A k \in 1..Len(calls) : calls[k].res \in {"ok", "clean"}

\* The program is started again, with the same command line in the same
\* directory, after a run that succeeded: the repository is as that run left it.
RunAgain ==
    /\ RunSucceeded
    /\ runs + 1 < MaxRuns
    /\ runs' = runs + 1
    /\ refs0' = refs
    /\ head0' = head
    /\ pc' = "main"
    /\ i' = 1
    /\ s' = EmptyState
    /\ err' = {}
    /\ deferred' = FALSE
    /\ calls' = <<>>
    /\ exitCode' = -1
    /\ UNCHANGED <<refs, head, cwd, flagB, gitVersion, clock>>

NextTwice ==
    \/ Next
    \/ RunAgain

SpecTwice == Init /\ [][NextTwice]_vars

\* ================================================================= claims

\* The branches the repository held when the program started.
Present0 == {b \in BranchNames : refs0[b] # NoSHA}

\* The k-th git command did not succeed (a status that reports a clean or a
\* dirty worktree did succeed).
Failed(k) == calls[k].res \notin {"ok", "clean", "dirty"}

CallsBy(f) == {k \in 1..Len(calls) : calls[k].by = f}

RestoreCalls == CallsBy("restore")

\* run() was left after its defer statement was reached.
FetchSucceeded == \E k \in 1..Len(calls) : calls[k].op = "fetch" /\ calls[k].res = "ok"

Terminated == pc = "exited"

\* No checkout failed for a reason other than the branch being checked out in
\* another worktree.
OnlyRefusals ==
    \A k \in 1..Len(calls) :
        calls[k].op \in {"checkout", "checkout-sha"} => calls[k].res # "fail"

\* Every worktree has the branch checked out that it had when the program started.
AllRestored == \A d \in Dirs : head[d] = head0[d]

\* C1: after a run in which every call succeeds, every branch that was an
\* ancestor of another branch before the run is still an ancestor of (or equal
\* to) it, whatever the branch graph.
C1_OrderingPreserved ==
    RunSucceeded =>
        \A a, b \in Present0 :
            IsAncestor(refs0[a], refs0[b]) => IsAncestor(refs[a], refs[b])

\* The topic branches form a chain of two or more branches on distinct commits,
\* none of which the updated target contains, and the pull moved the target.
ChainCase ==
    LET topics == Present0 \ {s.targetBranch}
    IN  /\ Cardinality(topics) >= 2
        /\ \A a, b \in topics :
              /\ a # b => refs0[a] # refs0[b]
              /\ IsAncestor(refs0[a], refs0[b]) \/ IsAncestor(refs0[b], refs0[a])
        /\ \A a \in topics : ~IsAncestor(refs0[a], refs[s.targetBranch])
        /\ refs[s.targetBranch] # refs0[s.targetBranch]

\* The last branch of a chain.
ChainTip ==
    CHOOSE b \in Present0 \ {s.targetBranch} :
        \A a \in Present0 \ {s.targetBranch} : IsAncestor(refs0[a], refs0[b])

\* C2: in the chain case the plan is exactly the chain's tip, one rebase is
\* issued, and after the run every branch of the chain points at a rewritten
\* commit on top of the updated target, in the order the chain had.
C2_ChainCase ==
    (RunSucceeded /\ ChainCase) =>
        /\ s.branchesToRebase = <<ChainTip>>
        /\ Cardinality({k \in 1..Len(calls) : calls[k].op = "rebase"}) = 1
        /\ \A a \in Present0 \ {s.targetBranch} :
              /\ refs[a] # refs0[a]
              /\ IsAncestor(refs[s.targetBranch], refs[a])
              /\ IsAncestor(refs[a], refs[ChainTip])

\* C3: after a run in which every call succeeds, the updated target's commit is
\* an ancestor of (or equal to) the commit of every branch of the snapshot.
C3_AllBranchesRebased ==
    RunSucceeded =>
        \A b \in DOMAIN s.branches : IsAncestor(refs[s.targetBranch], refs[b])

\* C4: a run that got past the pre-flight checks and in which no checkout was
\* refused for another reason than the branch being checked out in another
\* worktree ends with every worktree on the branch it started on.
C4_WorktreesRestored ==
    (Terminated /\ FetchSucceeded /\ OnlyRefusals) => AllRestored


\* C5: once run() is past its fetch, whichever phase fails or none, restore is
\* run exactly once (one checkout per worktree at most, from the first worktree
\* on), after every other phase has stopped and before the process ends; no
\* restore checkout is issued while a phase is still running.
C5_RestorerRunsOnce ==
    /\ (FetchSucceeded /\ Terminated) =>
          /\ RestoreCalls # {}
          /\ \A k \in RestoreCalls :
                /\ \A j \in 1..Len(calls) : j > k => j \in RestoreCalls
                /\ \A j \in RestoreCalls : j # k => calls[j].dir # calls[k].dir
          /\ \E k \in RestoreCalls :
                /\ calls[k].dir = s.worktrees[1].dir
                /\ k - 1 \notin RestoreCalls
    /\ pc \notin {"restore", "exited"} => RestoreCalls = {}

\* The Rebase Executor failed and restore ran to its end.
C5_Witness ==
    /\ Terminated
    /\ \E k \in CallsBy("rebaseBranches") : Failed(k)
    /\ Cardinality(RestoreCalls) = Cardinality(Dirs)
    /\ Cardinality(Dirs) = 2

\* C6: when a rebase fails and is aborted, restore still runs, the run ends
\* with an error that carries the failed rebase, and every worktree is back on
\* the branch it started on.
C6_ConflictRestored ==
    (/\ Terminated
     /\ \E k \in 1..Len(calls) : calls[k].op = "rebase" /\ Failed(k)
     /\ \E k \in 1..Len(calls) : calls[k].op = "abort" /\ ~Failed(k)
     /\ OnlyRefusals)
    => /\ RestoreCalls # {}
       /\ "failed to rebase" \in err
       /\ exitCode = 1
       /\ AllRestored

\* The error text run() wraps around the failure of each phase after the fetch.
CausalText(by) ==
    CASE by = "decapitateAll" -> "failed to detach the HEAD for each worktree"
      [] by = "updateTargetBranch" -> "updating target branch"
      [] by = "constructBranchesToRebase" -> "constructing the list of branches to rebase"
      [] by = "rebaseBranches" -> "rebasing the branches"

MutatingPhases ==
    {"decapitateAll", "updateTargetBranch", "constructBranchesToRebase", "rebaseBranches"}

RestoreFailed == \E k \in RestoreCalls : Failed(k)

\* C7: when a phase after the pre-flight checks failed and restore failed too,
\* the error the run ends with holds the error of the phase and the error of
\* restore.
C7_ErrorsMerged ==
    Terminated =>
        \A k \in 1..Len(calls) :
            (calls[k].by \in MutatingPhases /\ Failed(k) /\ RestoreFailed) =>
                /\ CausalText(calls[k].by) \in err
                /\ "restoring the worktree" \in err

\* The pull failed and then a restore checkout failed.
C7_Witness ==
    /\ Terminated
    /\ \E k \in CallsBy("updateTargetBranch") : calls[k].op = "pull" /\ Failed(k)
    /\ RestoreFailed

\* C8: when every phase before restore succeeded and a restore checkout fails,
\* the run ends with an error and the process exits with status 1.
C8_RestoreFailureIsAnError ==
    (/\ Terminated
     /\ RestoreFailed
     /\ \A k \in 1..Len(calls) : Failed(k) => k \in RestoreCalls)
    => /\ err # {}
       /\ exitCode = 1

\* Every rebase of a plan of two succeeded and the second restore checkout failed.
C8_Witness ==
    /\ Terminated
    /\ Len(s.branchesToRebase) = 2
    /\ \A k \in 1..Len(calls) : Failed(k) <=> (k = Len(calls))
    /\ calls[Len(calls)].by = "restore"
    /\ calls[Len(calls)].dir = 2

DirtySeen == \E k \in 1..Len(calls) : calls[k].op = "status" /\ calls[k].res = "dirty"

\* C9: when some worktree reports uncommitted changes the run ends at once with
\* an error, no checkout, fetch, pull, rebase or abort is ever issued and
\* restore is not run; and no such command is issued before every worktree of
\* the snapshot has reported that it is clean.
C9_DirtyWorktreeRejected ==
    /\ DirtySeen =>
          /\ Terminated
          /\ err # {}
          /\ Terminated => exitCode = 1
          /\ \A k \in 1..Len(calls) : calls[k].op \notin MutatingOps
          /\ RestoreCalls = {}
    /\ (\E k \in 1..Len(calls) : calls[k].op \in MutatingOps) =>
          \A d \in Dirs :
              \E k \in 1..Len(calls) :
                  calls[k].op = "status" /\ calls[k].dir = d /\ calls[k].res = "clean"

\* The second worktree, which is not the one the program runs in, is dirty.
C9_Witness ==
    /\ Terminated
    /\ \E k \in 1..Len(calls) :
          /\ calls[k].op = "status"
          /\ calls[k].res = "dirty"
          /\ calls[k].dir = 2
          /\ cwd = 1

\* The version check, the repository check or newState failed.
PreflightFailed ==
    \/ \E k \in 1..Len(calls) :
          /\ calls[k].op \in {"version", "is-inside-work-tree", "worktree-list", "branch-list"}
          /\ Failed(k)
    \/ "constructing state struct" \in err

\* C10: when the version check, the repository check or newState fails, the
\* run ends at once with an error; no checkout, fetch, pull, rebase or abort
\* has been issued, restore is not run, and every worktree's checkout and
\* every branch's commit are what they were.
C10_PreflightFailsFast ==
    PreflightFailed =>
        /\ Terminated
        /\ err # {}
        /\ Terminated => exitCode = 1
        /\ \A k \in 1..Len(calls) : calls[k].op \notin MutatingOps
        /\ RestoreCalls = {}
        /\ head = head0
        /\ refs = refs0

\* The listing of the branches failed in a repository with two worktrees.
C10_Witness ==
    /\ Terminated
    /\ \E k \in 1..Len(calls) : calls[k].op = "branch-list" /\ Failed(k)
    /\ Cardinality(Dirs) = 2

\* constructBranchesToRebase has just returned the plan: no planned branch has
\* been checked out yet.
PlanBuilt == pc = "rebaseBranches" /\ i = 1

\* C11: the target branch is never in the plan, whatever the branches are.
C11_TargetNeverInPlan ==
    ~Contains(s.branchesToRebase, s.targetBranch)

\* A plan was built when the target had no children (it is a leaf, which the
\* loop keeps) and another branch was on the target's commit.
C11_Witness ==
    /\ PlanBuilt
    /\ keepBranch(s, refs, head, s.targetBranch)
    /\ \E b \in DOMAIN s.branches :
          b # s.targetBranch /\ s.branches[b] = s.branches[s.targetBranch]
    /\ Len(s.branchesToRebase) > 0


\* The descendant set of a branch: the other branches of the snapshot whose
\* history holds the branch's commit and whose commit is another one.
Descendants(b) ==
    {c \in DOMAIN s.branches :
        /\ c # b
        /\ IsAncestor(refs[b], refs[c])
        /\ s.branches[c] # s.branches[b]}

IsLeaf(b) == Descendants(b) = {}

IsBehind(b) ==
    /\ s.targetBranch \in Descendants(b)
    /\ s.branches[b] # s.branches[s.targetBranch]

\* C12: when the plan has been built, a branch other than the target is in it
\* exactly when it is a leaf or it is behind the target.
C12_PlanComposition ==
    PlanBuilt =>
        \A b \in DOMAIN s.branches \ {s.targetBranch} :
            Contains(s.branchesToRebase, b) <=> (IsLeaf(b) \/ IsBehind(b))

\* A plan with a leaf and a branch that is behind and not a leaf, and without
\* an interior branch of the snapshot.
C12_Witness ==
    /\ PlanBuilt
    /\ \E a, b, c \in DOMAIN s.branches \ {s.targetBranch} :
          /\ IsBehind(a) /\ ~IsLeaf(a) /\ Contains(s.branchesToRebase, a)
          /\ ~IsLeaf(b) /\ ~IsBehind(b) /\ ~Contains(s.branchesToRebase, b)
          /\ IsLeaf(c) /\ Contains(s.branchesToRebase, c)


\* newState has listed the branches, so it has settled the target or failed.
BranchesListed ==
    \E k \in 1..Len(calls) : calls[k].op = "branch-list" /\ calls[k].res = "ok"

Exists0(b) == b \in BranchNames /\ refs0[b] # NoSHA

\* C13: a requested target is chosen when it exists and newState fails when it
\* does not, whether or not main or master exist; without a request the target
\* is main when it exists, else master when it exists, else newState fails.
C13_TargetResolution ==
    BranchesListed =>
        LET failed == /\ Terminated
                      /\ "constructing state struct" \in err
                      /\ exitCode = 1
                      /\ s.targetBranch = NoBranch
            chosen(b) == /\ s.targetBranch = b
                         /\ "constructing state struct" \notin err
        IN  IF flagB # ""
            THEN IF Exists0(flagB) THEN chosen(flagB) ELSE failed
            ELSE IF Exists0("main") THEN chosen("main")
            ELSE IF Exists0("master") THEN chosen("master")
            ELSE failed

\* A branch that does not exist was requested in a repository that has main
\* and master, and the run has ended.
C13_Witness ==
    /\ BranchesListed
    /\ Terminated
    /\ flagB = "dev"
    /\ Exists0("main")
    /\ Exists0("master")


\* main called run() (whose first statement issues `git --version`).
RunCalled == calls # <<>>

\* C14 as stated: the process exits with status 1 exactly when the run ended
\* with an error and with status 0 otherwise; there is no other status.
C14_ExitStatus ==
    Terminated =>
        /\ exitCode \in {0, 1}
        /\ exitCode = 1 <=> err # {}

\* C14, amended: once main has called run(), the process exits with status 1
\* exactly when run() returned an error (joined or not) and with status 0
\* otherwise; and the process does not end while run() is running.
C14_ExitStatusOfRun ==
    /\ (Terminated /\ RunCalled) =>
          /\ exitCode \in {0, 1}
          /\ exitCode = 1 <=> err # {}
    /\ (~Terminated) => exitCode = -1

\* run() returned the error of a failed rebase joined with the error of restore.
C14_Witness ==
    /\ Terminated
    /\ RunCalled
    /\ {"failed to rebase", "restoring the worktree"} \subseteq err
    /\ exitCode = 1


\* C15: the version check is the first thing a run does; the run is refused,
\* with the error of the version check and nothing else done, exactly when the
\* version <<major, minor>> that git reports is below <<2, 38>> in the
\* lexicographic order, so that 2.38 and 3.0 are accepted.
C15_MinimumVersion ==
    /\ RunCalled => calls[1].op = "version"
    /\ \A k \in 1..Len(calls) :
          (calls[k].op = "version" /\ calls[k].res # "fail") =>
              LET major == gitVersion[1]
                  minor == gitVersion[2]
                  below == major < 2 \/ (major = 2 /\ minor < 38)
              IN  /\ k = 1
                  /\ below <=> calls[k].res = "low"
                  /\ below => /\ Terminated
                              /\ Len(calls) = 1
                              /\ "validating the version of git" \in err
                              /\ exitCode = 1
                  /\ ~below => "validating the version of git" \notin err

\* git reported version 3.0 and the run went on to its next check.
C15_Witness ==
    /\ Len(calls) > 1
    /\ calls[1].op = "version"
    /\ calls[1].res = "ok"
    /\ gitVersion = <<3, 0>>


\* C16: a second run, started right after a run in which every call succeeded,
\* in which the pull leaves the target where it was and nothing fails for a
\* reason outside the repository (no git command, and not the os.Getwd of
\* newState), ends without an error and leaves every
\* branch on the commit and every worktree on the branch that the first run
\* left them on.
C16_Idempotent ==
    (/\ runs = 1
     /\ Terminated
     /\ calls # <<>>
     /\ \A k \in 1..Len(calls) : calls[k].res \in {"ok", "clean", "refused"}
     /\ s.targetBranch # NoBranch
     /\ refs[s.targetBranch] = refs0[s.targetBranch])
    => /\ err = {}
       /\ refs = refs0
       /\ head = head0


\* C17: when restore runs, it issues a checkout of the recorded branch in
\* every worktree of the snapshot, also in those listed after a worktree whose
\* checkout failed.
C17_RestoreVisitsEveryWorktree ==
    (Terminated /\ RestoreCalls # {}) =>
        \A n \in 1..Len(s.worktrees) :
            \E k \in RestoreCalls :
                /\ calls[k].dir = s.worktrees[n].dir
                /\ calls[k].arg = s.worktrees[n].branch

\* The place in run() of each function that issues git commands: 0 for what
\* precedes the phases, then the phases in their order.
PhaseRank ==
    [validateGitVersion |-> 0, run |-> 0, newState |-> 0, errIfUncommittedChanges |-> 0,
     decapitateAll |-> 1, updateTargetBranch |-> 2, constructBranchesToRebase |-> 3,
     rebaseBranches |-> 4, restore |-> 5]

\* C18: the git commands of the phases come in the order detachment, target
\* update, plan, rebases, restore (each command is of the phase of the command
\* before it or of a later one), so that no phase issues a command after a
\* later phase has issued one.  The target's checkout is issued when every worktree
\* has been detached; the first descendant query when the target has been
\* pulled and its commit read; the first checkout of a planned branch when the
\* descendants of every branch of the snapshot have been asked for.
C18_PhaseOrdering ==
    LET n == Len(calls)
        Issued(f) == \E k \in 1..n : calls[k].by = f
    IN  /\ \A k \in 1..(n - 1) : PhaseRank[calls[k].by] <= PhaseRank[calls[k+1].by]
        /\ Issued("updateTargetBranch") =>
              \A w \in 1..Len(s.worktrees) :
                  \E k \in 1..n :
                      /\ calls[k].by = "decapitateAll"
                      /\ calls[k].op = "checkout-sha"
                      /\ calls[k].dir = s.worktrees[w].dir
                      /\ calls[k].res = "ok"
        /\ Issued("constructBranchesToRebase") =>
              \E j \in 1..n :
                  /\ calls[j].by = "updateTargetBranch"
                  /\ calls[j].op = "pull" /\ calls[j].res = "ok"
                  /\ \E k \in (j+1)..n :
                        /\ calls[k].by = "updateTargetBranch"
                        /\ calls[k].op = "rev-parse" /\ calls[k].res = "ok"
        /\ Issued("rebaseBranches") =>
              \A b \in DOMAIN s.branches :
                  \E k \in 1..n :
                      /\ calls[k].by = "constructBranchesToRebase"
                      /\ calls[k].arg = b
                      /\ calls[k].res = "ok"

\* A run in which every phase issued a command, the last rebase failed and was
\* aborted, in a repository with two worktrees.
C18_Witness ==
    /\ Terminated
    /\ \A f \in MutatingPhases \cup {"restore"} : CallsBy(f) # {}
    /\ \E k \in CallsBy("rebaseBranches") : calls[k].op = "abort"
    /\ Len(s.branchesToRebase) = 2
    /\ Cardinality(Dirs) = 2


\* decapitateAll has detached every worktree of the snapshot.
DetachedAll ==
    /\ Len(s.worktrees) > 0
    /\ Cardinality({k \in CallsBy("decapitateAll") :
                       calls[k].op = "checkout-sha" /\ calls[k].res = "ok"})
          = Len(s.worktrees)

\* The worktrees that have a branch checked out.
Holders == {d \in Dirs : head[d].branch # NoBranch}

\* C19: from the end of a successful decapitateAll to the first checkout of
\* restore, every worktree other than the one the program runs in is on a
\* detached HEAD, so that at most one worktree holds a branch.
C19_DetachedState ==
    (DetachedAll /\ RestoreCalls = {}) =>
        /\ \A d \in Dirs : d # s.currentDir => head[d].branch = NoBranch
        /\ Cardinality(Holders) <= 1
        /\ Cardinality({head[d].branch : d \in Holders}) <= 1

\* A planned branch is checked out in the operating directory, about to be
\* rebased, in a repository with two worktrees.
C19_Witness ==
    /\ DetachedAll
    /\ RestoreCalls = {}
    /\ pc = "rebase"
    /\ Cardinality(Dirs) = 2
    /\ Holders = {s.currentDir}

\* C20: once decapitateAll has detached every worktree, no checkout of
\* updateTargetBranch or rebaseBranches is refused because the branch is
\* checked out in another worktree.
C20_NoRefusalAfterDetach ==
    \A k \in 1..Len(calls) :
        (/\ calls[k].by \in {"updateTargetBranch", "rebaseBranches"}
         /\ calls[k].op = "checkout"
         /\ DetachedAll)
        => calls[k].res # "refused"

\* The target, which another worktree than the operating directory had checked
\* out when the program started, and then a planned branch were checked out in
\* the operating directory.
C20_Witness ==
    /\ DetachedAll
    /\ Cardinality(Dirs) = 2
    /\ \E d \in Dirs :
          /\ d # s.currentDir
          /\ head0[d].branch = s.targetBranch
          /\ \E k \in CallsBy("updateTargetBranch") :
                calls[k].op = "checkout" /\ calls[k].res = "ok"
    /\ \E k \in CallsBy("rebaseBranches") :
          calls[k].op = "checkout" /\ calls[k].res = "ok"


\* The lines that `git branch --contains b` prints in the operating directory
\* in the current state of the repository.
Reported(b) == ContainsListing(refs, head, s.currentDir, b)

\* C21: whenever the snapshot has been taken and git reports no other names
\* than recorded branches and the detached HEAD, branchChildren of a recorded
\* branch succeeds and returns exactly the recorded branches that git reports
\* as containing the branch's commit, that are not the branch itself and whose
\* recorded commit differs from the branch's recorded commit; the detached
\* HEAD line is never among them.
C21_DescendantRelation ==
    s.currentDir \in Dirs =>
        \A b \in DOMAIN s.branches :
            LET r == branchChildren(s.branches, refs, head, s.currentDir, b)
                out == {r.out[k] : k \in 1..Len(r.out)}
                known == \A k \in 1..Len(Reported(b)) :
                             Reported(b)[k] \in DOMAIN s.branches \cup {DetachedLine}
            IN  known =>
                    /\ r.ok
                    /\ out = {c \in DOMAIN s.branches :
                                /\ Contains(Reported(b), c)
                                /\ c # b
                                /\ s.branches[c] # s.branches[b]}
                    /\ DetachedLine \notin out
                    /\ \A c \in out : s.branches[c] # s.branches[b]

\* The operating directory is on a detached HEAD that git lists for a branch
\* which also has a same-commit alias listed and a true descendant.
C21_Witness ==
    /\ s.currentDir \in Dirs
    /\ \E b \in DOMAIN s.branches :
          /\ Contains(Reported(b), DetachedLine)
          /\ \E c \in DOMAIN s.branches :
                c # b /\ s.branches[c] = s.branches[b] /\ Contains(Reported(b), c)
          /\ Len(branchChildren(s.branches, refs, head, s.currentDir, b).out) > 0


\* The position of a branch name in the order of the names.
Rank(b) == CHOOSE k \in 1..Len(BranchOrder) : BranchOrder[k] = b

\* The plan that the state of the repository and the snapshot determine: the
\* leaves and the branches behind the target, in the order of the names.
PlanOf ==
    SelectSeq(BranchOrder,
              LAMBDA b : /\ b \in DOMAIN s.branches \ {s.targetBranch}
                         /\ (IsLeaf(b) \/ IsBehind(b)))

PlannerCalls == SelectSeq(calls, LAMBDA c : c.by = "constructBranchesToRebase")

\* C22: the plan is strictly increasing in the order of the branch names, it
\* is the one sequence that the state of the repository determines, and the
\* planner asks git for the children of the branches in the order of their
\* names, so that two runs from one state with the same answers build the
\* same plan with the same calls.
C22_DeterministicPlan ==
    /\ \A j \in 1..(Len(s.branchesToRebase) - 1) :
          Rank(s.branchesToRebase[j]) < Rank(s.branchesToRebase[j + 1])
    /\ PlanBuilt => s.branchesToRebase = PlanOf
    /\ \A k \in 1..Len(PlannerCalls) :
          /\ PlannerCalls[k].op = "contains"
          /\ PlannerCalls[k].dir = s.currentDir
          /\ k <= Len(SortedKeys(s.branches))
          /\ PlannerCalls[k].arg = SortedKeys(s.branches)[k]
          /\ \A j \in 1..(k - 1) : Rank(PlannerCalls[j].arg) < Rank(PlannerCalls[k].arg)

\* A plan of two branches or more, built after the children of four branches
\* were asked for.
C22_Witness ==
    /\ PlanBuilt
    /\ Len(s.branchesToRebase) >= 2
    /\ Len(PlannerCalls) >= 4


\* The references after rebaseBranches has worked through plan from the
\* references rs, every checkout and rebase succeeding.
RECURSIVE RunPlan(_, _)
RunPlan(rs, plan) ==
    IF plan = <<>> THEN rs
    ELSE RunPlan(GitRebase(rs, [head EXCEPT ![s.currentDir] = Attached(Head(plan))],
                           s.currentDir, s.targetBranch, MaxClock),
                 Tail(plan))

\* The plan without its k-th branch.
Without(plan, k) == SubSeq(plan, 1, k - 1) \o SubSeq(plan, k + 1, Len(plan))

\* C23: whichever branch is taken out of the plan, running the rest of the
\* plan leaves a branch whose commit does not have the target's commit as an
\* ancestor.
C23_PlanMinimal ==
    PlanBuilt =>
        \A k \in 1..Len(s.branchesToRebase) :
            LET rs == RunPlan(refs, Without(s.branchesToRebase, k))
            IN  \E b \in DOMAIN s.branches : ~IsAncestor(rs[s.targetBranch], rs[b])


\* The worktrees that decapitateAll has detached.
DetachedDirs ==
    {calls[k].dir : k \in {j \in CallsBy("decapitateAll") :
                              calls[j].op = "checkout-sha" /\ calls[j].res = "ok"}}

\* decapitateAll has acted and no later phase has.
JustDetaching == calls # <<>> /\ calls[Len(calls)].by = "decapitateAll"

\* C24: while decapitateAll is the last phase that has acted, every worktree
\* it has detached is on a detached HEAD at the commit it had checked out at
\* the start, every other worktree is as it was, and no branch has moved.
C24_DetachmentPreservesContent ==
    JustDetaching =>
        /\ refs = refs0
        /\ \A d \in Dirs :
              IF d \in DetachedDirs
              THEN /\ head[d].branch = NoBranch
                   /\ head[d].sha = HeadCommit(refs0, head0, d)
              ELSE head[d] = head0[d]

\* Two worktrees on branches with different commits, neither of them the
\* target's, have both been detached.
C24_Witness ==
    /\ JustDetaching
    /\ Cardinality(DetachedDirs) = 2
    /\ \E d, e \in DetachedDirs :
          /\ head[d].sha # head[e].sha
          /\ head[d].sha # refs[s.targetBranch]
          /\ head[e].sha # refs[s.targetBranch]


\* C25: once a command of decapitateAll has failed, every later command is one
\* of restore (no further detachment, no checkout of the target, pull,
\* `git branch --contains`, rebase or abort), no branch has moved, run() is
\* returning, and the program ends only after restore has run, with the
\* detachment error and status 1.
C25_DetachmentFailure ==
    \A k \in CallsBy("decapitateAll") :
        Failed(k) =>
            /\ \A j \in (k + 1)..Len(calls) : calls[j].by = "restore"
            /\ refs = refs0
            /\ pc \in {"restore", "exited"}
            /\ Terminated =>
                  /\ RestoreCalls # {}
                  /\ CausalText("decapitateAll") \in err
                  /\ exitCode = 1

\* The detachment of the first of two worktrees failed, the second one was
\* left alone, and the program has ended after restore's checkouts.
C25_Witness ==
    /\ Terminated
    /\ Cardinality(Dirs) = 2
    /\ \E k \in CallsBy("decapitateAll") :
          /\ Failed(k)
          /\ calls[k].dir = s.worktrees[1].dir
    /\ DetachedDirs = {}
    /\ Cardinality(RestoreCalls) = 2


\* C26: once the checkout of the target, the pull or the reading of the
\* target's commit has failed, the plan stays empty, every later git command
\* is a checkout of restore, run() is returning, and the program ends with
\* the error of updateTargetBranch.
C26_TargetUpdateFailure ==
    \A k \in CallsBy("updateTargetBranch") :
        Failed(k) =>
            /\ s.branchesToRebase = <<>>
            /\ \A j \in (k + 1)..Len(calls) :
                  calls[j].by = "restore" /\ calls[j].op = "checkout"
            /\ pc \in {"restore", "exited"}
            /\ Terminated => CausalText("updateTargetBranch") \in err /\ exitCode = 1

\* The pull failed in a repository that has a branch to rebase, and the
\* program has ended after restore's checkouts.
C26_Witness ==
    /\ Terminated
    /\ \E k \in CallsBy("updateTargetBranch") : calls[k].op = "pull" /\ Failed(k)
    /\ \E b \in DOMAIN s.branches : b # s.targetBranch /\ IsLeaf(b)
    /\ RestoreCalls # {}


\* updateTargetBranch has read the commit of the target after the pull.
TargetRefreshed ==
    \E k \in CallsBy("updateTargetBranch") :
        calls[k].op = "rev-parse" /\ calls[k].res = "ok"

\* C27: in every state after the snapshot, s.branches has the branches of the
\* start; the entry of the target is the target's commit after the pull once
\* updateTargetBranch has succeeded (and so when the plan is built) and the
\* commit of the start before; every other entry is the commit of the start.
C27_TargetRefresh ==
    s.currentDir \in Dirs =>
        /\ DOMAIN s.branches = Present0
        /\ \A b \in DOMAIN s.branches \ {s.targetBranch} : s.branches[b] = refs0[b]
        /\ s.branches[s.targetBranch] =
              (IF TargetRefreshed THEN refs[s.targetBranch] ELSE refs0[s.targetBranch])
        /\ PlanBuilt => TargetRefreshed

\* The pull has moved the target, a branch that was on the target's commit at
\* the start is planned as behind it, and a rebase has moved another branch
\* whose entry still is the commit of the start.
C27_Witness ==
    /\ TargetRefreshed
    /\ refs[s.targetBranch] # refs0[s.targetBranch]
    /\ \E b \in DOMAIN s.branches \ {s.targetBranch} :
          refs0[b] = refs0[s.targetBranch] /\ Contains(s.branchesToRebase, b)
    /\ \E b \in DOMAIN s.branches \ {s.targetBranch} :
          refs[b] # refs0[b] /\ s.branches[b] = refs0[b]


ExecutorCalls == SelectSeq(calls, LAMBDA c : c.by = "rebaseBranches")

\* rebaseBranches has returned nil: the plan was built, no command before
\* restore failed, and run() is returning.
ExecutorDone ==
    /\ pc \in {"restore", "exited"}
    /\ s.currentDir \in Dirs
    /\ Len(PlannerCalls) = Cardinality(DOMAIN s.branches)
    /\ \A k \in 1..Len(calls) : calls[k].by # "restore" => ~Failed(k)
    /\ \A k \in 1..Len(calls) : calls[k].res # "dirty"

\* C28: as long as no command of rebaseBranches has failed, its commands are,
\* in the operating directory, the checkout of the first planned branch, a
\* rebase onto the target, the checkout of the second planned branch, a
\* rebase onto the target, and so on in the order of the plan; when it has
\* returned there is one such pair for every planned branch, and the children
\* of no branch were asked for a second time.
C28_ExecutorSequence ==
    (\A k \in CallsBy("rebaseBranches") : ~Failed(k)) =>
        /\ Len(ExecutorCalls) <= 2 * Len(s.branchesToRebase)
        /\ \A k \in 1..Len(ExecutorCalls) :
              /\ ExecutorCalls[k].dir = s.currentDir
              /\ IF k % 2 = 1
                 THEN /\ ExecutorCalls[k].op = "checkout"
                      /\ ExecutorCalls[k].arg = s.branchesToRebase[(k + 1) \div 2]
                 ELSE /\ ExecutorCalls[k].op = "rebase"
                      /\ ExecutorCalls[k].arg = s.targetBranch
        /\ ExecutorDone => Len(ExecutorCalls) = 2 * Len(s.branchesToRebase)
        /\ Len(PlannerCalls) <= Cardinality(DOMAIN s.branches)

\* rebaseBranches has returned nil after working through a plan of two
\* branches, while the snapshot has a third branch besides the target that
\* is not planned.
C28_Witness ==
    /\ ExecutorDone
    /\ Len(s.branchesToRebase) = 2
    /\ Len(ExecutorCalls) = 4
    /\ Cardinality(DOMAIN s.branches) = 4


\* C29: a failed rebase is followed at once by an abort in the same
\* directory, and after it by commands of restore only; an abort follows a
\* failed rebase at once and nothing else, and there is at most one abort.
C29_AbortOnRebaseFailure ==
    /\ \A k \in 1..Len(calls) :
          (calls[k].op = "rebase" /\ Failed(k)) =>
              /\ k < Len(calls)
              /\ calls[k + 1].op = "abort"
              /\ calls[k + 1].dir = calls[k].dir
              /\ \A j \in (k + 2)..Len(calls) : calls[j].by = "restore"
    /\ \A k \in 1..Len(calls) :
          calls[k].op = "abort" =>
              /\ k > 1
              /\ calls[k - 1].op = "rebase"
              /\ Failed(k - 1)
    /\ Cardinality({k \in 1..Len(calls) : calls[k].op = "abort"}) <= 1

\* The rebase of the first of two planned branches failed and was aborted,
\* and the program has ended after restore's checkouts.
C29_Witness ==
    /\ Terminated
    /\ Len(s.branchesToRebase) = 2
    /\ Len(ExecutorCalls) = 3
    /\ ExecutorCalls[2].op = "rebase" /\ ExecutorCalls[2].res = "fail"
    /\ ExecutorCalls[3].op = "abort"
    /\ RestoreCalls # {}

\* C30: when a rebase has failed, the error that run() returns holds the
\* failure of the rebase and the outcome of the abort, the success marker or
\* the abort's own failure, and the program ends with status 1, whether the
\* abort succeeded or not.
C30_CombinedDiagnostic ==
    \A k \in 1..Len(calls) :
        (calls[k].op = "rebase" /\ Failed(k)) =>
            /\ "failed to rebase" \in err
            /\ CausalText("rebaseBranches") \in err
            /\ calls[k + 1].res = "ok" => "successfully aborted" \in err
            /\ calls[k + 1].res # "ok" => "failed to abort the rebase" \in err
            /\ Terminated => exitCode = 1

\* A rebase failed, its abort succeeded, restore succeeded too, and the
\* program has ended.
C30_Witness ==
    /\ Terminated
    /\ \E k \in 1..Len(calls) :
          /\ calls[k].op = "rebase" /\ Failed(k)
          /\ calls[k + 1].op = "abort" /\ calls[k + 1].res = "ok"
    /\ ~RestoreFailed


\* git has a branch that the snapshot does not have.
Stray == \E n \in BranchNames : refs[n] # NoSHA /\ n \notin DOMAIN s.branches

\* C31: when `git branch --contains` reports a branch that s.branches does
\* not have, constructBranchesToRebase fails: once it has run the plan is
\* empty, rebaseBranches issues no command, run() is returning, and the
\* program ends after restore has run with the error of the plan
\* construction and status 1.
C31_GraphConsistencyFailure ==
    (Stray /\ s.currentDir \in Dirs /\ pc # "constructBranchesToRebase") =>
        /\ s.branchesToRebase = <<>>
        /\ CallsBy("rebaseBranches") = {}
        /\ pc \in {"restore", "exited"}
        /\ Terminated =>
              /\ RestoreCalls # {}
              /\ CausalText("constructBranchesToRebase") \in err
              /\ exitCode = 1

\* A branch was made on the commit of a leaf, every `git branch --contains`
\* succeeded, the children of two branches or more were asked for, and the
\* program has ended after restore's checkouts.
C31_Witness ==
    /\ Terminated
    /\ Stray
    /\ \E b \in DOMAIN s.branches \ {s.targetBranch} :
          refs[StrayBranch] = refs[b] /\ IsLeaf(b)
    /\ Len(PlannerCalls) >= 2
    /\ \A k \in 1..Len(calls) : calls[k].by # "restore" => ~Failed(k)
    /\ RestoreCalls # {}


\* C32: in every state after the snapshot, s.worktrees is the list of the
\* worktrees with the branches they had at the start, s.currentDir is the
\* directory of the process and s.targetBranch is the branch resolved from
\* the branches of the start; every command of restore is the checkout, in a
\* worktree, of the branch that the worktree had at the start.
C32_FrozenSnapshot ==
    s.currentDir \in Dirs =>
        /\ s.worktrees = WorktreeListing(head0)
        /\ s.currentDir = cwd
        /\ s.targetBranch = resolveTarget(BranchListing(refs0), flagB)
        /\ \A k \in RestoreCalls :
              /\ calls[k].op = "checkout"
              /\ calls[k].arg = head0[calls[k].dir].branch

\* Two worktrees were detached, the operating directory went from the target
\* to a planned branch, a rebase moved a branch, and restore has checked out
\* a branch in both worktrees.
C32_Witness ==
    /\ Cardinality(RestoreCalls) = 2
    /\ refs # refs0
    /\ \E k \in CallsBy("rebaseBranches") : calls[k].op = "rebase" /\ calls[k].res = "ok"
    /\ head0[s.currentDir].branch \notin {s.targetBranch, s.branchesToRebase[1]}


\* The children of a branch as constructBranchesToRebase gets them.
Children(b) == branchChildren(s.branches, refs, head, s.currentDir, b).out

\* C33: whenever branchChildren puts the target among the children of a
\* branch, the recorded commit of the branch differs from the recorded commit
\* of the target; so, in the plan that was built, a branch with children is
\* planned exactly when the target is among them, and a planned branch on the
\* commit of the target has no children.
C33_BehindTestRedundant ==
    s.currentDir \in Dirs =>
        \A b \in DOMAIN s.branches \ {s.targetBranch} :
            /\ Contains(Children(b), s.targetBranch) =>
                  s.branches[b] # s.branches[s.targetBranch]
            /\ (PlanBuilt /\ Len(Children(b)) > 0) =>
                  (Contains(s.branchesToRebase, b) <=> Contains(Children(b), s.targetBranch))
            /\ (PlanBuilt /\ Contains(s.branchesToRebase, b)
                          /\ s.branches[b] = s.branches[s.targetBranch]) =>
                  Len(Children(b)) = 0

\* The plan was built for a snapshot with a branch on the target's commit
\* that git reports the target for, that has a child and is not planned, and
\* with a planned leaf.
C33_Witness ==
    /\ PlanBuilt
    /\ \E b, c \in DOMAIN s.branches \ {s.targetBranch} :
          /\ s.branches[b] = s.branches[s.targetBranch]
          /\ Contains(Reported(b), s.targetBranch)
          /\ Contains(Children(b), c)
          /\ ~Contains(s.branchesToRebase, b)
          /\ Contains(s.branchesToRebase, c)


\* C34: when the plan has been built, two branches other than the target
\* that are recorded on the same commit have the same children and are both
\* planned or both left out; when rebaseBranches has returned nil, each of
\* two planned such branches was checked out by it.
C34_AliasSymmetry ==
    PlanBuilt \/ ExecutorDone =>
        \A a, b \in DOMAIN s.branches \ {s.targetBranch} :
            s.branches[a] = s.branches[b] =>
                /\ PlanBuilt =>
                      {Children(a)[k] : k \in 1..Len(Children(a))}
                          = {Children(b)[k] : k \in 1..Len(Children(b))}
                /\ Contains(s.branchesToRebase, a) <=> Contains(s.branchesToRebase, b)
                /\ (ExecutorDone /\ Contains(s.branchesToRebase, a)) =>
                      \E k \in CallsBy("rebaseBranches") :
                          calls[k].op = "checkout" /\ calls[k].arg = a

\* rebaseBranches has returned nil after it checked out and rebased two
\* leaves on one commit, which the pulled target does not hold.
C34_Witness ==
    /\ ExecutorDone
    /\ refs[s.targetBranch] # refs0[s.targetBranch]
    /\ \E a, b \in DOMAIN s.branches \ {s.targetBranch} :
          /\ a # b
          /\ s.branches[a] = s.branches[b]
          /\ ~IsPrefix(s.branches[a], refs[s.targetBranch])
          /\ Contains(s.branchesToRebase, a)
          /\ Contains(s.branchesToRebase, b)


\* C35: when `git fetch --prune` has failed, it is the last git command of
\* the run and no detachment, checkout, pull, rebase or abort came before it;
\* restore has not run, the program has ended with the fetch error alone and
\* status 1, and every worktree and every branch is as it was at the start.
C35_FetchFailure ==
    \A k \in 1..Len(calls) :
        (calls[k].op = "fetch" /\ Failed(k)) =>
            /\ k = Len(calls)
            /\ \A j \in 1..(k - 1) : calls[j].op \notin MutatingOps
            /\ RestoreCalls = {}
            /\ Terminated
            /\ err = {"fetching and pruning"}
            /\ exitCode = 1
            /\ head = head0
            /\ refs = refs0

\* The fetch failed in a repository with two worktrees.
C35_Witness ==
    /\ Terminated
    /\ Cardinality(Dirs) = 2
    /\ calls # <<>>
    /\ calls[Len(calls)].op = "fetch"
    /\ Failed(Len(calls))


\* C36: once a checkout of rebaseBranches has failed, every later git command
\* is one of restore (no rebase, no abort, no checkout of a later planned
\* branch), run() is returning, and the program ends after restore has run
\* with the error of rebaseBranches and status 1.
C36_ExecutorCheckoutFailure ==
    \A k \in CallsBy("rebaseBranches") :
        (calls[k].op = "checkout" /\ Failed(k)) =>
            /\ \A j \in (k + 1)..Len(calls) : calls[j].by = "restore"
            /\ pc \in {"restore", "exited"}
            /\ Terminated =>
                  /\ RestoreCalls # {}
                  /\ CausalText("rebaseBranches") \in err
                  /\ exitCode = 1

\* The checkout of the second of three planned branches failed after the
\* first one was rebased, and the program has ended after restore's checkouts.
C36_Witness ==
    /\ Terminated
    /\ Len(s.branchesToRebase) = 3
    /\ Len(ExecutorCalls) = 3
    /\ ExecutorCalls[3].op = "checkout"
    /\ ExecutorCalls[3].res = "fail"
    /\ RestoreCalls # {}


\* C37: the step in which a rebase fails and its abort succeeds, and every
\* step of restore, leave the commit of every branch as it was before the
\* step: the branches that earlier rebases rewrote and the pulled target keep
\* their new commits, the other branches the commits they had.
C37_NoRollback ==
    [][(\/ /\ pc = "rebase"
           /\ calls'[Len(calls')].op = "abort"
           /\ calls'[Len(calls')].res = "ok"
        \/ pc = "restore")
       => refs' = refs]_vars

\* The rebase of the second planned branch failed and was aborted after the
\* pull had moved the target and the first rebase had rewritten the first
\* planned branch; the second one is on the commit of the start, and the
\* program has ended after restore's checkouts.
C37_Witness ==
    /\ Terminated
    /\ Len(s.branchesToRebase) >= 2
    /\ Len(ExecutorCalls) = 5
    /\ ExecutorCalls[4].op = "rebase" /\ ExecutorCalls[4].res = "fail"
    /\ ExecutorCalls[5].op = "abort" /\ ExecutorCalls[5].res = "ok"
    /\ refs[s.targetBranch] # refs0[s.targetBranch]
    /\ refs[s.branchesToRebase[1]] # refs0[s.branchesToRebase[1]]
    /\ refs[s.branchesToRebase[2]] = refs0[s.branchesToRebase[2]]
    /\ RestoreCalls # {}


\* The detachments, the queries for children, the executor's checkouts and
\* restore's checkouts, each without its result.
OnceOnly ==
    SelectSeq(calls, LAMBDA c :
        \/ c.by = "decapitateAll" /\ c.op = "checkout-sha"
        \/ c.by = "constructBranchesToRebase" /\ c.op = "contains"
        \/ c.by = "rebaseBranches" /\ c.op = "checkout"
        \/ c.by = "restore" /\ c.op = "checkout")

NoRepeats ==
    /\ Cardinality({[by |-> OnceOnly[k].by, dir |-> OnceOnly[k].dir, arg |-> OnceOnly[k].arg] :
                        k \in 1..Len(OnceOnly)}) = Len(OnceOnly)
    /\ Cardinality({k \in CallsBy("rebaseBranches") : calls[k].op = "rebase"})
          <= Cardinality({k \in CallsBy("rebaseBranches") : calls[k].op = "checkout"})
    /\ Cardinality({k \in CallsBy("rebaseBranches") : calls[k].op = "checkout"})
          <= Len(s.branchesToRebase)

\* C38: when every step that can be taken is taken, the program ends; and at
\* no time has a worktree been detached twice or restored twice, have the
\* children of a branch been asked for twice, or has a planned branch been
\* checked out and rebased twice.
C38_Termination == <>Terminated /\ []NoRepeats

\* The program has ended after it detached and restored two worktrees, asked
\* for the children of four branches and rebased two planned branches.
C38_Witness ==
    /\ Terminated
    /\ Cardinality(DetachedDirs) = 2
    /\ Cardinality(RestoreCalls) = 2
    /\ Len(PlannerCalls) = 4
    /\ Cardinality({k \in CallsBy("rebaseBranches") : calls[k].op = "rebase"}) = 2


====
